---- MODULE Spec2Model ----
(***************************************************************************)
(* A model of ResourceScraper (src/scraper.py).                            *)
(*                                                                         *)
(* Text (URLs, link texts, titles, file names, paths) is a sequence of     *)
(* one-character strings, so that the string operations of the code        *)
(* (endswith, "in", lower, split, strip, re.sub, os.path.splitext,         *)
(* os.path.basename, urlparse) are computed character by character.       *)
(* Python's None and the empty string are both the empty sequence: every   *)
(* place of the code that receives one of them only tests its truth value. *)
(***************************************************************************)
EXTENDS Integers, Sequences, FiniteSets, TLC

VARIABLES
    downloaded_files,   \* self.downloaded_files: the set of URLs already fetched
    folder_structure,   \* self.folder_structure: page URL -> folder path
    files,              \* the files on disk: path -> content
    dirs,               \* the directories on disk
    pc,                 \* position of the caller: "idle", "page", "download", "done", "raised"
    page_urls,          \* scrape_multiple_pages: the page list of the run
    page_i,             \* scrape_multiple_pages: index of the current page
    preview_only,       \* scrape_multiple_pages: the preview flag of the run
    folder_path,        \* scrape_page: the folder of the current page
    resources,          \* scrape_page: find_resources' list for the current page
    res_i,              \* scrape_page: index of the current resource
    downloaded,         \* scrape_page: the resources downloaded from the current page
    all_downloaded,     \* scrape_multiple_pages: the list being aggregated / returned
    last,               \* observation: what the most recent call was given and did
    fetch_log,          \* observation: the page fetches of the run, in order
    attempt_log,        \* observation: the download_file calls of the run, in order
    succeeded,          \* observation: the URLs for which download_file has returned True
    calls,              \* observation: number of direct calls of download_file so far
    fn_in,              \* input of the pure function under check
    fn_out              \* its result

vars == <<downloaded_files, folder_structure, files, dirs, pc, page_urls, page_i,
          preview_only, folder_path, resources, res_i, downloaded, all_downloaded,
          last, fetch_log, attempt_log, succeeded, calls, fn_in, fn_out>>

-----------------------------------------------------------------------------
(* Text primitives (Python str / re / os.path / urllib.parse)              *)

Upper == <<"A","B","C","D","E","F","G","H","I","J","K","L","M",
           "N","O","P","Q","R","S","T","U","V","W","X","Y","Z">>
Lowers == <<"a","b","c","d","e","f","g","h","i","j","k","l","m",
            "n","o","p","q","r","s","t","u","v","w","x","y","z">>

\* str.lower() on one character
LowerChar(c) ==
    IF \E i \in 1..Len(Upper) : Upper[i] = c
    THEN Lowers[CHOOSE i \in 1..Len(Upper) : Upper[i] = c]
    ELSE c

\* str.lower()
Lower(s) == [i \in 1..Len(s) |-> LowerChar(s[i])]

\* str.endswith(suf)
EndsWith(s, suf) ==
    /\ Len(s) >= Len(suf)
    /\ SubSeq(s, Len(s) - Len(suf) + 1, Len(s)) = suf

\* sub in s
Contains(s, sub) ==
    \E i \in 1..(Len(s) - Len(sub) + 1) : SubSeq(s, i, i + Len(sub) - 1) = sub

\* s.find(c) for a set of characters: the first index >= from holding one, or 0
FindFirst(s, cs, from) ==
    IF \E i \in from..Len(s) : s[i] \in cs
    THEN CHOOSE i \in from..Len(s) : s[i] \in cs /\ \A j \in from..(i - 1) : s[j] \notin cs
    ELSE 0

\* s.rfind(c): the last index holding the character, or 0
FindLast(s, c) ==
    IF \E i \in 1..Len(s) : s[i] = c
    THEN CHOOSE i \in 1..Len(s) : s[i] = c /\ \A j \in (i + 1)..Len(s) : s[j] # c
    ELSE 0

\* str.isspace() of one character; also the class \s of re
IsSpace(c) == c \in {" ", "\t", "\n", "\r"}

\* str.strip()
RECURSIVE LStripSet(_, _)
LStripSet(s, cs) ==
    IF s # <<>> /\ Head(s) \in cs THEN LStripSet(Tail(s), cs) ELSE s

RECURSIVE RStripSet(_, _)
RStripSet(s, cs) ==
    IF s # <<>> /\ s[Len(s)] \in cs THEN RStripSet(SubSeq(s, 1, Len(s) - 1), cs) ELSE s

WhiteSpace == {" ", "\t", "\n", "\r"}

Strip(s) == RStripSet(LStripSet(s, WhiteSpace), WhiteSpace)

\* str.split("/") keeping the non-empty parts: [part for part in s.split("/") if part]
RECURSIVE SplitNonEmpty(_, _)
SplitNonEmpty(s, sep) ==
    LET k == FindFirst(s, {sep}, 1) IN
    IF s = <<>> THEN <<>>
    ELSE IF k = 0 THEN <<s>>
    ELSE IF k = 1 THEN SplitNonEmpty(Tail(s), sep)
    ELSE <<SubSeq(s, 1, k - 1)>> \o SplitNonEmpty(SubSeq(s, k + 1, Len(s)), sep)

\* str(counter) for a non-negative integer
Digits == <<"0","1","2","3","4","5","6","7","8","9">>

RECURSIVE IntToStr(_)
IntToStr(n) ==
    IF n < 10 THEN <<Digits[n + 1]>>
    ELSE IntToStr(n \div 10) \o <<Digits[(n % 10) + 1]>>

\* urlsplit, last step: the path is what precedes the first ? or #
PathUpTo(after, q) == IF q = 0 THEN after ELSE SubSeq(after, 1, q - 1)

PathOf(after) == PathUpTo(after, FindFirst(after, {"?", "#"}, 1))

\* urlsplit, second step: "//netloc" runs up to the first of / ? #
NetlocAndPath(scheme, rest, hasNet, d) ==
    [scheme |-> scheme,
     netloc |-> IF ~hasNet THEN <<>>
                ELSE IF d = 0 THEN SubSeq(rest, 3, Len(rest))
                ELSE SubSeq(rest, 3, d - 1),
     path   |-> PathOf(IF ~hasNet THEN rest
                       ELSE IF d = 0 THEN <<>>
                       ELSE SubSeq(rest, d, Len(rest)))]

AfterScheme(scheme, rest) ==
    NetlocAndPath(scheme, rest,
                  Len(rest) >= 2 /\ SubSeq(rest, 1, 2) = <<"/", "/">>,
                  FindFirst(rest, {"/", "?", "#"}, 3))

IsLetter(c) == \E j \in 1..Len(Lowers) : LowerChar(c) = Lowers[j]

\* urlsplit, first step: "scheme:" when only letters precede the first colon
SchemeAt(url, c) ==
    IF c > 1 /\ \A i \in 1..(c - 1) : IsLetter(url[i])
    THEN AfterScheme(Lower(SubSeq(url, 1, c - 1)), SubSeq(url, c + 1, Len(url)))
    ELSE AfterScheme(<<>>, url)

\* urlparse(url): scheme, netloc and path
urlparse(url) == SchemeAt(url, FindFirst(url, {":"}, 1))

\* the schemes of urllib.parse.uses_relative that the modelled pages use
UsesRelative == {<<"h","t","t","p">>, <<"h","t","t","p","s">>}

JoinParsed(base, href, b, h) ==
    IF href = <<>> THEN base
    ELSE IF h.scheme # <<>> \/ b.scheme \notin UsesRelative THEN href
    ELSE IF Head(href) = "/"
         THEN b.scheme \o <<":", "/", "/">> \o b.netloc \o href
    ELSE base

\* urljoin(page_url, href) for an href that is absolute ("scheme:...") or
\* host-relative ("/path" without dot segments), the two forms the modelled
\* pages use; a base whose scheme is not in uses_relative returns the href
urljoin(base, href) == JoinParsed(base, href, urlparse(base), urlparse(href))

\* os.path.basename(path)
basename(p) == SubSeq(p, FindLast(p, "/") + 1, Len(p))

\* os.path.dirname(path)
DirUpTo(p, k) == IF k = 0 THEN <<>> ELSE RStripSet(SubSeq(p, 1, k), {"/"})

dirname(p) == DirUpTo(p, FindLast(p, "/"))

\* os.path.splitext(path): the extension starts at the last dot of the last
\* component, leading dots of the component not counted
SplitAtDot(p, sep, dot) ==
    IF dot > sep /\ \E i \in (sep + 1)..(dot - 1) : p[i] # "."
    THEN <<SubSeq(p, 1, dot - 1), SubSeq(p, dot, Len(p))>>
    ELSE <<p, <<>>>>

splitext(p) == SplitAtDot(p, FindLast(p, "/"), FindLast(p, "."))

\* os.path.join(a, *parts) for parts that do not start with "/"
RECURSIVE path_join(_, _)
path_join(a, parts) ==
    IF parts = <<>> THEN a
    ELSE path_join((IF a = <<>> \/ a[Len(a)] = "/" THEN a ELSE a \o <<"/">>)
                       \o Head(parts), Tail(parts))

-----------------------------------------------------------------------------
(* clean_filename (lines 31-56)                                            *)

\* default of the max_length parameter
max_length == 100

\* re.sub(r"<[^>]+>", "", text): a "<", at least one character other than ">",
\* then the first ">"; matches are removed left to right
RECURSIVE RemoveTags(_)
RemoveTags(s) ==
    IF s = <<>> THEN <<>>
    ELSE IF Head(s) = "<" /\ FindFirst(s, {">"}, 2) >= 3
         THEN RemoveTags(SubSeq(s, FindFirst(s, {">"}, 2) + 1, Len(s)))
         ELSE <<Head(s)>> \o RemoveTags(Tail(s))

\* the class [<>:"/\\|?*\x00-\x1f]
InvalidChars == {"<", ">", ":", "\"", "/", "\\", "|", "?", "*", "\t", "\n", "\r"}

\* re.sub(invalid_chars, "_", text)
ReplaceInvalid(s) == [i \in 1..Len(s) |-> IF s[i] \in InvalidChars THEN "_" ELSE s[i]]

\* re.sub(r"[\s_]+", "_", text)
RECURSIVE CollapseRuns(_)
CollapseRuns(s) ==
    IF s = <<>> THEN <<>>
    ELSE IF IsSpace(Head(s)) \/ Head(s) = "_"
         THEN <<"_">> \o CollapseRuns(LStripSet(s, WhiteSpace \cup {"_"}))
         ELSE <<Head(s)>> \o CollapseRuns(Tail(s))

\* text.strip("_.")
StripUnderscoreDot(s) == RStripSet(LStripSet(s, {"_", "."}), {"_", "."})

\* lines 53-54
Truncate(t) ==
    IF Len(t) > max_length
    THEN RStripSet(SubSeq(t, 1, max_length), {"_", "."})
    ELSE t

\* clean_filename(text): the cleaned text, or <<>> where the code returns None
clean_filename(text) ==
    IF text = <<>> \/ Strip(text) = <<>> THEN <<>>
    ELSE Truncate(StripUnderscoreDot(CollapseRuns(ReplaceInvalid(Strip(RemoveTags(text))))))

-----------------------------------------------------------------------------
(* get_file_extension, generate_filename, find_resources                   *)

DotPdf  == <<".", "p", "d", "f">>
DotPpt  == <<".", "p", "p", "t">>
DotPptx == <<".", "p", "p", "t", "x">>
KwPdf   == <<"p", "d", "f">>
KwPpt   == <<"p", "p", "t">>
Document == <<"d", "o", "c", "u", "m", "e", "n", "t">>
Embedded_Resource ==
    <<"E","m","b","e","d","d","e","d","_","R","e","s","o","u","r","c","e">>
EmbeddedResourceLabel ==
    <<"E","m","b","e","d","d","e","d"," ","r","e","s","o","u","r","c","e">>

\* lines 158-171, on the lowered path and the lowered URL
ExtensionOf(path, lowered_url) ==
    IF EndsWith(path, DotPdf) THEN DotPdf
    ELSE IF EndsWith(path, DotPpt) THEN DotPpt
    ELSE IF EndsWith(path, DotPptx) THEN DotPptx
    ELSE IF Contains(lowered_url, KwPdf) THEN DotPdf
    ELSE IF Contains(lowered_url, KwPpt) THEN DotPptx
    ELSE DotPdf

\* a changed classifier: the path and the URL are not lowered
get_file_extension_nolower(url) == ExtensionOf(urlparse(url).path, url)

get_file_extension(url) == ExtensionOf(Lower(urlparse(url).path), Lower(url))

\* lines 184-189
FallbackName(clean_fallback, extension) ==
    IF clean_fallback # <<>> THEN clean_fallback \o extension
    ELSE Document \o extension

\* lines 180-198
NameFrom(clean_text, extension, fallback_name, original_name) ==
    IF clean_text # <<>> /\ Len(clean_text) > 2 THEN clean_text \o extension
    ELSE IF fallback_name # <<>>
    THEN FallbackName(clean_filename(fallback_name), extension)
    ELSE IF original_name # <<>> /\ Contains(original_name, <<".">>)
    THEN original_name
    ELSE Document \o extension

\* a changed naming: the extension is not appended
generate_filename_noext(link_text, original_url, fallback_name) ==
    NameFrom(clean_filename(link_text), <<>>, fallback_name,
             basename(urlparse(original_url).path))

generate_filename(link_text, original_url, fallback_name) ==
    NameFrom(clean_filename(link_text), get_file_extension(original_url),
             fallback_name, basename(urlparse(original_url).path))

\* the test of an anchor's resolved URL (lines 220-222)
AnchorAccepted(full_url) ==
    \/ \E ext \in {DotPdf, DotPpt, DotPptx} : EndsWith(Lower(full_url), ext)
    \/ \E kw \in {KwPdf, KwPpt} : Contains(Lower(full_url), kw)

\* the test of an embed's resolved URL (lines 250-252)
EmbedAccepted(full_url) ==
    \E ext \in {DotPdf, DotPpt, DotPptx} : EndsWith(Lower(full_url), ext)

\* the dictionary appended by lines 235-243 and 261-271
Candidate(full_url, filename, link_text, title) ==
    [url |-> full_url, filename |-> filename, link_text |-> link_text,
     title |-> title, original_filename |-> basename(urlparse(full_url).path),
     downloaded_path |-> <<>>]

\* one <a href=...> (lines 216-243); link.get_text(strip=True)
AnchorAt(full_url, link_text, title_attr) ==
    IF AnchorAccepted(full_url)
    THEN <<Candidate(full_url, generate_filename(link_text, full_url, title_attr),
                     link_text, title_attr)>>
    ELSE <<>>

RECURSIVE AnchorResources(_, _)
AnchorResources(links, page_url) ==
    IF links = <<>> THEN <<>>
    ELSE AnchorAt(urljoin(page_url, Head(links).href), Strip(Head(links).text),
                  Head(links).title)
         \o AnchorResources(Tail(links), page_url)

\* one embed/object/iframe (lines 247-271)
EmbedAt(src, page_url, title_text) ==
    IF src # <<>> /\ EmbedAccepted(urljoin(page_url, src))
    THEN <<Candidate(urljoin(page_url, src),
                     generate_filename(title_text, urljoin(page_url, src),
                                       Embedded_Resource),
                     IF title_text # <<>> THEN title_text ELSE EmbeddedResourceLabel,
                     title_text)>>
    ELSE <<>>

RECURSIVE EmbedResources(_, _)
EmbedResources(embeds, page_url) ==
    IF embeds = <<>> THEN <<>>
    ELSE EmbedAt(IF Head(embeds).src # <<>> THEN Head(embeds).src ELSE Head(embeds).data,
                 page_url,
                 IF Head(embeds).title # <<>> THEN Head(embeds).title
                 ELSE Head(embeds).alt)
         \o EmbedResources(Tail(embeds), page_url)

\* find_resources(soup, page_url): the anchors, then the embeds, in document order
find_resources(soup, page_url) ==
    AnchorResources(soup.anchors, page_url) \o EmbedResources(soup.embeds, page_url)

-----------------------------------------------------------------------------
(* get_page_title, get_folder_path                                         *)

\* get_page_title(soup): <title>, else <h1>, else the meta title
get_page_title(soup) ==
    IF Strip(soup.title) # <<>> THEN Strip(soup.title)
    ELSE IF Strip(soup.h1) # <<>> THEN Strip(soup.h1)
    ELSE Strip(soup.meta_title)

\* self.download_folder (the constructor's default is "downloaded_resources";
\* the model's scraper is constructed with the folder "r")
download_folder == <<"r">>

Www == <<"w", "w", "w", ".">>

\* str.replace("www.", "")
RECURSIVE RemoveWww(_)
RemoveWww(s) ==
    IF s = <<>> THEN <<>>
    ELSE IF Len(s) >= 4 /\ SubSeq(s, 1, 4) = Www THEN RemoveWww(SubSeq(s, 5, Len(s)))
    ELSE <<Head(s)>> \o RemoveWww(Tail(s))

Website == <<"w", "e", "b", "s", "i", "t", "e">>

\* one iteration of lines 119-122
CleanPart(clean_part) == IF clean_part # <<>> THEN <<clean_part>> ELSE <<>>

\* the clean, non-empty parts of the URL path (lines 118-122)
RECURSIVE CleanParts(_)
CleanParts(parts) ==
    IF parts = <<>> THEN <<>>
    ELSE CleanPart(clean_filename(Head(parts))) \o CleanParts(Tail(parts))

\* lines 125-134: the title replaces the last part, or is the only part
WithTitle(folder_parts, page_title, title_cleaned) ==
    IF page_title # <<>> /\ title_cleaned # <<>>
       /\ (folder_parts = <<>> \/ title_cleaned # folder_parts[Len(folder_parts)])
    THEN IF folder_parts # <<>>
         THEN [folder_parts EXCEPT ![Len(folder_parts)] = title_cleaned]
         ELSE <<title_cleaned>>
    ELSE folder_parts

\* line 139
DomainPart(clean_domain) == IF clean_domain # <<>> THEN clean_domain ELSE Website

\* lines 137-142
JoinFolder(folder_parts, netloc) ==
    IF folder_parts # <<>> THEN path_join(download_folder, folder_parts)
    ELSE path_join(download_folder, <<DomainPart(clean_filename(RemoveWww(netloc)))>>)

FolderOf(parsed_url, page_title) ==
    JoinFolder(WithTitle(CleanParts(SplitNonEmpty(parsed_url.path, "/")),
                         page_title, clean_filename(page_title)),
               parsed_url.netloc)

\* the folder get_folder_path computes when the page is not cached (lines 112-142)
ComputeFolderPath(page_url, page_title) == FolderOf(urlparse(page_url), page_title)

\* lines 145-147: the path is cached and returned
Cached(cache, page_url, p) ==
    [ret |-> p,
     cache |-> [u \in DOMAIN cache \cup {page_url} |->
                  IF u = page_url THEN p ELSE cache[u]]]

\* a changed lookup: the folder is computed and stored on every call
get_folder_path_uncached(cache, page_url, page_title) ==
    Cached(cache, page_url, ComputeFolderPath(page_url, page_title))

\* get_folder_path(page_url, page_title): the value returned and
\* self.folder_structure afterwards
get_folder_path(cache, page_url, page_title) ==
    IF page_url \in DOMAIN cache
    THEN [ret |-> cache[page_url], cache |-> cache]
    ELSE Cached(cache, page_url, ComputeFolderPath(page_url, page_title))

-----------------------------------------------------------------------------
(* The file system and download_file                                       *)

\* os.path.exists(path)
path_exists(fs, ds, p) == p \in DOMAIN fs \/ p \in ds

\* a directory and the directories above it
RECURSIVE Ancestors(_)
Ancestors(d) == IF d = <<>> THEN {} ELSE {d} \cup Ancestors(dirname(d))

\* mkdir(parents=True, exist_ok=True) / os.makedirs(exist_ok=True) succeeds
\* unless the directory or one above it is a file
MakedirsOk(fs, d) == Ancestors(d) \cap DOMAIN fs = {}

\* a changed test: the dedup set is never consulted
AlreadyDownloaded_never(dl, url) == FALSE

\* the "already downloaded" test (line 277)
AlreadyDownloaded(dl, url) == url \in dl

\* a changed suffix: the counter is put after the extension
Suffixed_after(name_ext, counter) ==
    name_ext[1] \o name_ext[2] \o <<"_">> \o IntToStr(counter)

\* line 291: f"{name}_{counter}{ext}"
Suffixed(name_ext, counter) ==
    name_ext[1] \o <<"_">> \o IntToStr(counter) \o name_ext[2]

\* the loop of lines 287-292: the first path of filepath, name_1.ext,
\* name_2.ext, ... at which nothing exists
RECURSIVE ProbePath(_, _, _, _, _)
ProbePath(fs, ds, original_filepath, filepath, counter) ==
    IF path_exists(fs, ds, filepath)
    THEN ProbePath(fs, ds, original_filepath,
                   Suffixed(splitext(original_filepath), counter), counter + 1)
    ELSE filepath

\* a changed probe: the path is taken as given, whatever exists there
FreePath_taken(fs, ds, filepath) == filepath

FreePath(fs, ds, filepath) == ProbePath(fs, ds, filepath, filepath, 1)

\* what the transport does with one request: it serves the body, session.get
\* raises, raise_for_status raises, or iter_content raises part-way
Outcomes == {"ok", "request_error", "status_error", "stream_error"}

\* a changed bookkeeping: the URL is added whatever the transfer did
DedupAfter_always(dl, url, outcome) == dl \cup {url}

\* self.downloaded_files after a transfer with the given outcome (line 301)
DedupAfter(dl, url, outcome) == IF outcome = "ok" THEN dl \cup {url} ELSE dl

\* the file written by lines 297-299: the whole body, or the part of it
\* received before iter_content raised
Written(url, outcome) == [src |-> url, complete |-> (outcome = "ok")]

\* what one call of download_file returns and leaves behind
Result(ret, dl, fs, ds, requested, wrote) ==
    [ret |-> ret, dl |-> dl, fs |-> fs, ds |-> ds, requested |-> requested,
     wrote |-> wrote]

\* lines 294-307 once the free path is known; an OSError of os.makedirs is
\* not caught by the except clause ("raised")
WriteTo(dl, fs, ds, url, final, outcome) ==
    IF ~MakedirsOk(fs, dirname(final))
    THEN Result("raised", dl, fs, ds, TRUE, <<>>)
    ELSE Result(IF outcome = "ok" THEN "True" ELSE "False",
                DedupAfter(dl, url, outcome),
                [p \in DOMAIN fs \cup {final} |->
                    IF p = final THEN Written(url, outcome) ELSE fs[p]],
                ds \cup Ancestors(dirname(final)),
                TRUE, final)

\* download_file(url, filepath) under a transport outcome
download_file(dl, fs, ds, url, filepath, outcome) ==
    IF AlreadyDownloaded(dl, url) THEN Result("True", dl, fs, ds, FALSE, <<>>)
    ELSE IF outcome \in {"request_error", "status_error"}
    THEN Result("False", dl, fs, ds, TRUE, <<>>)
    ELSE WriteTo(dl, fs, ds, url, FreePath(fs, ds, filepath), outcome)

-----------------------------------------------------------------------------
(* The inputs of the model                                                 *)

\* longest page list given to scrape_multiple_pages
MaxPages == 2
\* most direct calls of download_file in one behaviour
MaxCalls == 3
\* most tokens appended to the host when the URLs of the naming checks are built
MaxTokens == 2

Http(rest) == <<"h","t","t","p",":","/","/","d">> \o rest

PageA == Http(<<"/","a">>)
PageB == Http(<<"/","b">>)
PageUrls == {PageA, PageB}

NoText == <<>>
Doc == <<"D","o","c">>
Two == <<"T","w","o">>
HrefX == <<"/","f","/","x",".","p","d","f">>
HrefY == <<"/","f","/","y",".","p","d","f">>

Anchor(href, text, title) == [href |-> href, text |-> text, title |-> title]
Embed(src, data, title, alt) == [src |-> src, data |-> data, title |-> title, alt |-> alt]
Soup(title, anchors, embeds) ==
    [title |-> title, h1 |-> NoText, meta_title |-> NoText,
     anchors |-> anchors, embeds |-> embeds]

\* a page without a title linking two different URLs under the same link text
SoupSameName == Soup(NoText, <<Anchor(HrefX, Doc, NoText), Anchor(HrefY, Doc, NoText)>>, <<>>)
\* a titled page embedding the first of these URLs under another name
SoupOther == Soup(Two, <<>>, <<Embed(NoText, HrefX, Two, NoText)>>)
Soups == {SoupSameName, SoupOther}

\* the page lists a run may be given
PageLists == UNION {[1..n -> PageUrls] : n \in 1..MaxPages}

\* files that may be on disk before the scraper is constructed
OldFile == [src |-> <<"o","l","d">>, complete |-> TRUE]
PreExisting == {path_join(download_folder, <<<<"a">>, Doc \o DotPdf>>)}

\* the arguments of the direct calls of download_file
CallUrls == {Http(HrefX), Http(HrefY)}
CallPaths == {path_join(download_folder, <<<<"a">>, Doc \o DotPdf>>),
              path_join(download_folder, <<<<"b">>, Two \o DotPdf>>)}

NoCall == [op |-> "none", url |-> <<>>, arg |-> <<>>, ret |-> "", folder |-> <<>>,
           outcome |-> "none", known |-> FALSE, requested |-> FALSE, wrote |-> <<>>]

NoInput == [kind |-> "none"]
NoOutput == [done |-> FALSE, ext |-> <<>>, resources |-> <<>>]

-----------------------------------------------------------------------------
(* The scraper as a state machine                                          *)

\* __init__ (lines 11-29): empty dedup set and folder cache; the download
\* folder exists, with whatever files were in it
Constructed ==
    /\ downloaded_files = {}
    /\ folder_structure = [u \in {} |-> <<>>]
    /\ \E pre \in SUBSET PreExisting :
          /\ files = [p \in pre |-> OldFile]
          /\ dirs = {download_folder} \cup UNION {Ancestors(dirname(p)) : p \in pre}
    /\ pc = "idle"
    /\ page_urls = <<>>
    /\ page_i = 0
    /\ preview_only = FALSE
    /\ folder_path = <<>>
    /\ resources = <<>>
    /\ res_i = 0
    /\ downloaded = <<>>
    /\ all_downloaded = <<>>
    /\ last = NoCall
    /\ fetch_log = <<>>
    /\ attempt_log = <<>>
    /\ succeeded = {}
    /\ calls = 0

Init ==
    /\ Constructed
    /\ fn_in = NoInput
    /\ fn_out = NoOutput

\* the observation of one call of download_file
Observed(url, filepath, outcome, r) ==
    [op |-> "download_file", url |-> url, arg |-> filepath, ret |-> r.ret,
     folder |-> <<>>, outcome |-> IF r.requested THEN outcome ELSE "none",
     known |-> url \in succeeded, requested |-> r.requested, wrote |-> r.wrote]

\* scrape_multiple_pages(page_urls, preview_only) is called (lines 360-362)
StartRun(pl, pv) ==
    /\ pc = "idle"
    /\ pc' = "page"
    /\ page_urls' = pl
    /\ page_i' = 1
    /\ preview_only' = pv
    /\ last' = NoCall
    /\ UNCHANGED <<downloaded_files, folder_structure, files, dirs, folder_path,
                   resources, res_i, downloaded, all_downloaded, fetch_log,
                   attempt_log, succeeded, calls, fn_in, fn_out>>

\* a changed failure: a page that cannot be fetched ends the run
ScrapePageFetchFailed_abort ==
    /\ pc = "page"
    /\ page_i <= Len(page_urls)
    /\ fetch_log' = Append(fetch_log, [url |-> page_urls[page_i], ok |-> FALSE,
                                       found |-> <<>>])
    /\ pc' = "done"
    /\ last' = NoCall
    /\ UNCHANGED <<downloaded_files, folder_structure, files, dirs, page_urls, page_i,
                   preview_only, folder_path, resources, res_i, downloaded,
                   all_downloaded, attempt_log, succeeded, calls, fn_in, fn_out>>

\* scrape_page: get_page_content returns None, the page yields [] (lines 313-315)
ScrapePageFetchFailed ==
    /\ pc = "page"
    /\ page_i <= Len(page_urls)
    /\ fetch_log' = Append(fetch_log, [url |-> page_urls[page_i], ok |-> FALSE,
                                       found |-> <<>>])
    /\ page_i' = page_i + 1
    /\ last' = NoCall
    /\ UNCHANGED <<downloaded_files, folder_structure, files, dirs, pc, page_urls,
                   preview_only, folder_path, resources, res_i, downloaded,
                   all_downloaded, attempt_log, succeeded, calls, fn_in, fn_out>>

\* the URLs of a list of candidates
UrlsOf(rs) == [i \in 1..Len(rs) |-> rs[i].url]

\* lines 317-326: the folder g of the page and the candidates found on it
PageScanned(page_url, g, found) ==
    /\ folder_path' = g.ret
    /\ folder_structure' = g.cache
    /\ resources' = found
    /\ fetch_log' = Append(fetch_log, [url |-> page_url, ok |-> TRUE,
                                       found |-> UrlsOf(found)])
    /\ last' = NoCall

\* a changed preview: the folder is created before the candidates are returned
PreviewReturn_mkdir(found) ==
    /\ all_downloaded' = all_downloaded \o found
    /\ page_i' = page_i + 1
    /\ dirs' = dirs \cup Ancestors(folder_path')
    /\ UNCHANGED <<downloaded_files, files, pc, page_urls, preview_only,
                   res_i, downloaded, attempt_log, succeeded, calls, fn_in, fn_out>>

\* lines 328-338: in preview the candidates are returned as they are
PreviewReturn(found) ==
    /\ all_downloaded' = all_downloaded \o found
    /\ page_i' = page_i + 1
    /\ UNCHANGED <<downloaded_files, files, dirs, pc, page_urls, preview_only,
                   res_i, downloaded, attempt_log, succeeded, calls, fn_in, fn_out>>

\* scrape_page with preview_only (lines 313-338)
ScrapePagePreview(soup) ==
    /\ pc = "page"
    /\ page_i <= Len(page_urls)
    /\ preview_only
    /\ PageScanned(page_urls[page_i],
                   get_folder_path(folder_structure, page_urls[page_i],
                                   get_page_title(soup)),
                   find_resources(soup, page_urls[page_i]))
    /\ PreviewReturn(find_resources(soup, page_urls[page_i]))

\* lines 340-343: ensure_folder_exists, whose OSError is not caught and ends
\* the run, then the download loop starts
EnterLoop(folder) ==
    /\ IF MakedirsOk(files, folder)
       THEN dirs' = dirs \cup Ancestors(folder) /\ pc' = "download"
       ELSE dirs' = dirs /\ pc' = "raised"
    /\ res_i' = 1
    /\ downloaded' = <<>>
    /\ UNCHANGED <<downloaded_files, files, page_urls, page_i, preview_only,
                   all_downloaded, attempt_log, succeeded, calls, fn_in, fn_out>>

\* scrape_page without preview_only, up to the download loop (lines 313-343)
ScrapePageBegin(soup) ==
    /\ pc = "page"
    /\ page_i <= Len(page_urls)
    /\ ~preview_only
    /\ PageScanned(page_urls[page_i],
                   get_folder_path(folder_structure, page_urls[page_i],
                                   get_page_title(soup)),
                   find_resources(soup, page_urls[page_i]))
    /\ EnterLoop(get_folder_path(folder_structure, page_urls[page_i],
                                 get_page_title(soup)).ret)

\* the state after a call of download_file that did r
Downloaded(url, filepath, outcome, r) ==
    /\ downloaded_files' = r.dl
    /\ files' = r.fs
    /\ dirs' = r.ds
    /\ succeeded' = IF r.ret = "True" THEN succeeded \cup {url} ELSE succeeded
    /\ last' = Observed(url, filepath, outcome, r)

\* lines 351-353: the resource is recorded when download_file returned True
Recorded(resource, full_filepath, r) ==
    /\ downloaded' = IF r.ret = "True"
                     THEN Append(downloaded,
                                 [resource EXCEPT !.downloaded_path = full_filepath])
                     ELSE downloaded
    /\ pc' = IF r.ret = "raised" THEN "raised" ELSE pc
    /\ res_i' = res_i + 1
    /\ attempt_log' = Append(attempt_log, [page |-> page_i, url |-> resource.url,
                                           ret |-> r.ret])
    /\ UNCHANGED <<folder_structure, page_urls, page_i, preview_only, folder_path,
                   resources, all_downloaded, fetch_log, calls, fn_in, fn_out>>

\* lines 349-353
DownloadTo(resource, full_filepath, outcome, r) ==
    /\ Downloaded(resource.url, full_filepath, outcome, r)
    /\ Recorded(resource, full_filepath, r)

\* one iteration of the download loop of scrape_page (lines 344-356)
DownloadResource(outcome) ==
    /\ pc = "download"
    /\ res_i <= Len(resources)
    /\ DownloadTo(resources[res_i],
                  path_join(folder_path, <<resources[res_i].filename>>),
                  outcome,
                  download_file(downloaded_files, files, dirs, resources[res_i].url,
                                path_join(folder_path, <<resources[res_i].filename>>),
                                outcome))

\* scrape_page returns downloaded, scrape_multiple_pages extends its list
\* and moves to the next page (lines 358, 366-367)
FinishPage ==
    /\ pc = "download"
    /\ res_i > Len(resources)
    /\ all_downloaded' = all_downloaded \o downloaded
    /\ page_i' = page_i + 1
    /\ pc' = "page"
    /\ last' = NoCall
    /\ UNCHANGED <<downloaded_files, folder_structure, files, dirs, page_urls,
                   preview_only, folder_path, resources, res_i, downloaded,
                   fetch_log, attempt_log, succeeded, calls, fn_in, fn_out>>

\* scrape_multiple_pages returns all_downloaded (line 373)
Return ==
    /\ pc = "page"
    /\ page_i > Len(page_urls)
    /\ pc' = "done"
    /\ last' = NoCall
    /\ UNCHANGED <<downloaded_files, folder_structure, files, dirs, page_urls, page_i,
                   preview_only, folder_path, resources, res_i, downloaded,
                   all_downloaded, fetch_log, attempt_log, succeeded, calls,
                   fn_in, fn_out>>

\* one run of scrape_multiple_pages on a newly constructed scraper
Next ==
    \/ \E pl \in PageLists, pv \in BOOLEAN : StartRun(pl, pv)
    \/ ScrapePageFetchFailed
    \/ \E soup \in Soups : ScrapePagePreview(soup)
    \/ \E soup \in Soups : ScrapePageBegin(soup)
    \/ \E outcome \in Outcomes : DownloadResource(outcome)
    \/ FinishPage
    \/ Return

Spec == Init /\ [][Next]_vars

-----------------------------------------------------------------------------
(* download_file called directly, any of the URLs to any of the paths      *)

DownloadFile(url, filepath, outcome) ==
    /\ pc = "idle"
    /\ calls < MaxCalls
    /\ calls' = calls + 1
    /\ Downloaded(url, filepath, outcome,
                  download_file(downloaded_files, files, dirs, url, filepath, outcome))
    /\ UNCHANGED <<folder_structure, pc, page_urls, page_i, preview_only, folder_path,
                   resources, res_i, downloaded, all_downloaded, fetch_log,
                   attempt_log, fn_in, fn_out>>

NextDl ==
    \E url \in CallUrls, filepath \in CallPaths, outcome \in Outcomes :
        DownloadFile(url, filepath, outcome)

SpecDl == Init /\ [][NextDl]_vars

-----------------------------------------------------------------------------
(* get_folder_path called directly, any of the page URLs with any title    *)

PathUrls == {PageA, Http(<<"/","a","/","b","/">>),
             <<"h","t","t","p",":","/","/","w","w","w",".","d">>}
Titles == {NoText, <<"a">>, Two, <<"<","b",">">>}

GotFolder(page_url, page_title, g) ==
    /\ folder_structure' = g.cache
    /\ last' = [NoCall EXCEPT !.op = "get_folder_path", !.url = page_url,
                              !.arg = page_title, !.folder = g.ret,
                              !.known = (page_url \in DOMAIN folder_structure)]

GetFolderPath(page_url, page_title) ==
    /\ pc = "idle"
    /\ GotFolder(page_url, page_title,
                 get_folder_path(folder_structure, page_url, page_title))
    /\ UNCHANGED <<downloaded_files, files, dirs, pc, page_urls, page_i, preview_only,
                   folder_path, resources, res_i, downloaded, all_downloaded,
                   fetch_log, attempt_log, succeeded, calls, fn_in, fn_out>>

NextPath == \E page_url \in PathUrls, page_title \in Titles : GetFolderPath(page_url, page_title)

SpecPath == Init /\ [][NextPath]_vars

-----------------------------------------------------------------------------
(* get_file_extension and find_resources applied to bounded inputs         *)

\* the pieces the URLs of the classifier check are built from
UrlTokens == {<<"/","a">>, <<".","p","d","f">>, <<".","P","P","T">>,
              <<".","p","p","t","x">>, <<".","d","o","c","x">>, <<".","x","l","s">>,
              <<"p","d","f">>, <<"P","p","t">>, <<"?","q">>, <<".","h","t","m","l">>}
\* the pieces the hrefs of the extraction check are built from
HrefTokens == {<<"a">>, <<".","p","d","f">>, <<".","P","P","T">>, <<"/","p","p","t">>,
               <<"?","q">>, <<".","h","t","m","l">>}

\* the concatenations of at most n tokens
RECURSIVE TokenStrings(_, _)
TokenStrings(tokens, n) ==
    IF n = 0 THEN {<<>>}
    ELSE TokenStrings(tokens, n - 1)
         \cup {s \o t : s \in TokenStrings(tokens, n - 1), t \in tokens}

FnUrls == {Http(s) : s \in TokenStrings(UrlTokens, MaxTokens)}
Hrefs == {<<"/">> \o s : s \in TokenStrings(HrefTokens, MaxTokens)}
LinkTexts == {NoText, Doc, <<"a","b">>, <<" ","<","b",">">>}
TitleAttrs == {NoText, Two, <<" ">>}

FnInputs ==
    {[kind |-> "url", url |-> u] : u \in FnUrls}
    \cup {[kind |-> "anchor", link |-> Anchor(h, t, a)] :
             h \in Hrefs, t \in LinkTexts, a \in TitleAttrs}
    \cup {[kind |-> "embed", embed |-> Embed(h, NoText, t, a)] :
             h \in Hrefs, t \in {NoText, Doc}, a \in {NoText, Two}}

InitFn ==
    /\ Constructed
    /\ fn_in \in FnInputs
    /\ fn_out = NoOutput

Unused == <<downloaded_files, folder_structure, files, dirs, pc, page_urls, page_i,
            preview_only, folder_path, resources, res_i, downloaded, all_downloaded,
            last, fetch_log, attempt_log, succeeded, calls, fn_in>>

CallGetFileExtension ==
    /\ fn_in.kind = "url"
    /\ ~fn_out.done
    /\ fn_out' = [NoOutput EXCEPT !.done = TRUE, !.ext = get_file_extension(fn_in.url)]
    /\ UNCHANGED Unused

\* find_resources on a page at PageA holding the one anchor
CallFindResourcesAnchor ==
    /\ fn_in.kind = "anchor"
    /\ ~fn_out.done
    /\ fn_out' = [NoOutput EXCEPT !.done = TRUE,
                    !.resources = find_resources(Soup(NoText, <<fn_in.link>>, <<>>), PageA)]
    /\ UNCHANGED Unused

\* find_resources on a page at PageA holding the one embed
CallFindResourcesEmbed ==
    /\ fn_in.kind = "embed"
    /\ ~fn_out.done
    /\ fn_out' = [NoOutput EXCEPT !.done = TRUE,
                    !.resources = find_resources(Soup(NoText, <<>>, <<fn_in.embed>>), PageA)]
    /\ UNCHANGED Unused

NextFn == CallGetFileExtension \/ CallFindResourcesAnchor \/ CallFindResourcesEmbed

SpecFn == InitFn /\ [][NextFn]_vars

-----------------------------------------------------------------------------
(* Properties                                                              *)

IsDownload(c) == c.op = "download_file"

\* C1: once download_file has returned success for a URL, every later call
\* for that URL, to whatever path, returns success, issues no request, leaves
\* every file and directory as it was and does not change the size of the
\* dedup set.
C1_DedupShortCircuit ==
    [][(IsDownload(last') /\ last'.url \in succeeded)
        => /\ last'.ret = "True"
           /\ ~last'.requested
           /\ files' = files
           /\ dirs' = dirs
           /\ Cardinality(downloaded_files') = Cardinality(downloaded_files)]_vars

\* a short-circuited call whose path lies in another folder than the file
\* the URL was first written to
C1_Witness ==
    /\ IsDownload(last) /\ last.known /\ last.ret = "True" /\ ~last.requested
    /\ \E p \in DOMAIN files :
          /\ files[p] = [src |-> last.url, complete |-> TRUE]
          /\ dirname(p) # dirname(last.arg)

\* C2: no step changes or removes a file that exists, and every write of
\* download_file goes to a path at which nothing existed before the write.
C2_NoOverwrite ==
    [][/\ \A p \in DOMAIN files : p \in DOMAIN files' /\ files'[p] = files[p]
       /\ (IsDownload(last') /\ last'.wrote # <<>>)
             => (last'.wrote \notin DOMAIN files /\ last'.wrote \notin dirs)]_vars

\* a write that was moved to a suffixed path because of a file that was on
\* disk before the scraper was constructed, which is still as it was
C2_Witness ==
    /\ IsDownload(last) /\ last.wrote # <<>> /\ last.wrote # last.arg
    /\ last.arg \in DOMAIN files /\ files[last.arg] = OldFile
    /\ files[last.wrote].src = last.url

\* C3: in a run without preview, the path recorded for every resource of the
\* returned list is the path at which the bytes of that resource were written.
C3_RecordedPathIsWrittenPath ==
    ~preview_only =>
        \A i \in 1..Len(all_downloaded) :
            /\ all_downloaded[i].downloaded_path \in DOMAIN files
            /\ files[all_downloaded[i].downloaded_path].src = all_downloaded[i].url

\* C4: a transfer that fails at the request, at the status check or while
\* streaming makes download_file return failure and leaves the URL out of the
\* dedup set; every URL of the dedup set has a completely written file; and a
\* call for a URL that is not in the dedup set issues a request.
C4_FailureNotDeduped ==
    /\ (IsDownload(last) /\ last.ret # "raised"
           /\ last.outcome \in {"request_error", "status_error", "stream_error"})
          => (last.ret = "False" /\ last.url \notin downloaded_files)
    /\ \A u \in downloaded_files :
          \E p \in DOMAIN files : files[p] = [src |-> u, complete |-> TRUE]
    /\ (IsDownload(last) /\ last.url \notin downloaded_files) => last.requested

\* a URL whose transfer broke while streaming, leaving a partial file, and
\* was then requested again and fetched
C4_Witness ==
    /\ IsDownload(last) /\ last.requested /\ last.outcome = "ok"
    /\ last.url \in downloaded_files /\ ~last.known
    /\ \E p \in DOMAIN files : files[p] = [src |-> last.url, complete |-> FALSE]

\* C5: no step of a run with preview_only creates or changes a file or a
\* directory, issues a transfer request or changes the dedup set.
C5_PreviewTouchesNothing ==
    [][preview_only'
        => /\ files' = files
           /\ dirs' = dirs
           /\ downloaded_files' = downloaded_files
           /\ ~last'.requested
           /\ attempt_log' = attempt_log]_vars

\* a finished preview run that reported candidates for a folder that was
\* resolved but does not exist
C5_Witness ==
    /\ pc = "done" /\ preview_only
    /\ Len(all_downloaded) >= 2
    /\ folder_path # <<>> /\ folder_path \notin dirs

AttemptsOfPage(i) ==
    LET OnPage(a) == a.page = i IN
    [k \in 1..Len(SelectSeq(attempt_log, OnPage)) |-> SelectSeq(attempt_log, OnPage)[k].url]

SuccessfulAttempts ==
    LET Ok(a) == a.ret = "True" IN
    [k \in 1..Len(SelectSeq(attempt_log, Ok)) |-> SelectSeq(attempt_log, Ok)[k].url]

RECURSIVE FoundUpTo(_)
FoundUpTo(n) == IF n = 0 THEN <<>> ELSE FoundUpTo(n - 1) \o fetch_log[n].found

\* C6: the run is never ended by a failure; when it returns, every page of
\* the list has been fetched, in order, every resource found on a fetched
\* page has been attempted, in order, a failed page has contributed nothing,
\* and the returned list holds exactly the resources whose download
\* succeeded (in preview: the resources found), in order.
C6_FailuresDoNotAbort ==
    /\ pc # "raised"
    /\ pc = "done" =>
          /\ Len(fetch_log) = Len(page_urls)
          /\ \A i \in 1..Len(page_urls) :
                /\ fetch_log[i].url = page_urls[i]
                /\ ~fetch_log[i].ok => fetch_log[i].found = <<>>
                /\ ~preview_only => AttemptsOfPage(i) = fetch_log[i].found
          /\ UrlsOf(all_downloaded) =
                IF preview_only THEN FoundUpTo(Len(fetch_log)) ELSE SuccessfulAttempts

\* a finished run of two pages whose first page could not be fetched and
\* whose second page had a failed and a successful download
C6_Witness ==
    /\ pc = "done" /\ ~preview_only /\ Len(page_urls) = 2
    /\ ~fetch_log[1].ok /\ fetch_log[2].ok
    /\ \E k \in 1..Len(attempt_log) : attempt_log[k].ret = "False"
    /\ Len(all_downloaded) = 1

\* C7: no step changes or removes an entry of the folder cache, and a call of
\* get_folder_path for a cached page URL returns the cached path whatever
\* the title; the path a call returns is the entry of its page URL.
C7_FolderMemoized ==
    [][/\ \A u \in DOMAIN folder_structure :
             u \in DOMAIN folder_structure' /\ folder_structure'[u] = folder_structure[u]
       /\ last'.op = "get_folder_path"
             => /\ last'.url \in DOMAIN folder_structure
                      => last'.folder = folder_structure[last'.url]
                /\ last'.url \in DOMAIN folder_structure'
                /\ folder_structure'[last'.url] = last'.folder]_vars

\* a call for a cached page URL with a title that would give another folder
C7_Witness ==
    /\ last.op = "get_folder_path" /\ last.known
    /\ ComputeFolderPath(last.url, last.arg) # last.folder
    /\ folder_structure[last.url] = last.folder

KnownExtensions ==
    {DotPdf, DotPpt, DotPptx, <<".","d","o","c">>, <<".","d","o","c","x">>,
     <<".","x","l","s">>, <<".","m","p","4">>}

HasExtension(filename, exts) == \E e \in exts : EndsWith(Lower(filename), e)

\* C8 as claimed: every candidate find_resources emits has a non-empty
\* filename that ends in one of the recognized extensions.
C8_FilenameHasKnownExtension ==
    fn_out.done =>
        \A i \in 1..Len(fn_out.resources) :
            /\ fn_out.resources[i].filename # <<>>
            /\ HasExtension(fn_out.resources[i].filename, KnownExtensions)

\* the one case in which no extension is appended: an anchor whose cleaned
\* link text has at most two characters and whose title attribute is empty,
\* pointing to a URL whose last path segment contains a dot
KeepsOriginalName(r) ==
    /\ fn_in.kind = "anchor"
    /\ Len(clean_filename(r.link_text)) <= 2
    /\ r.title = <<>>
    /\ Contains(r.original_filename, <<".">>)

\* C8 as amended: the filename is never empty; it is the last path segment
\* of the URL, unchanged, in the case above, and otherwise ends in .pdf, .ppt
\* or .pptx.
C8_FilenameAmended ==
    fn_out.done =>
        \A i \in 1..Len(fn_out.resources) :
            /\ fn_out.resources[i].filename # <<>>
            /\ IF KeepsOriginalName(fn_out.resources[i])
               THEN fn_out.resources[i].filename = fn_out.resources[i].original_filename
               ELSE \E e \in {DotPdf, DotPpt, DotPptx} :
                       EndsWith(fn_out.resources[i].filename, e)

\* an accepted anchor whose filename is the URL's own last segment and has
\* none of the recognized extensions
C8_Witness ==
    /\ fn_out.done /\ Len(fn_out.resources) = 1
    /\ KeepsOriginalName(fn_out.resources[1])
    /\ ~HasExtension(fn_out.resources[1].filename, KnownExtensions)

\* the suffix rule of both classifiers: the one extension of exts the lowered
\* path ends with, if any
SuffixMatches(url, exts) == {e \in exts : EndsWith(Lower(urlparse(url).path), e)}

\* the keyword rule: the extension of the first keyword, in the given order,
\* that occurs in the lowered URL, else .pdf
RECURSIVE FirstKeyword(_, _)
FirstKeyword(url, rules) ==
    IF rules = <<>> THEN DotPdf
    ELSE IF Contains(Lower(url), Head(rules)[1]) THEN Head(rules)[2]
    ELSE FirstKeyword(url, Tail(rules))

Classifier(url, exts, rules) ==
    IF SuffixMatches(url, exts) # {}
    THEN CHOOSE e \in SuffixMatches(url, exts) : TRUE
    ELSE FirstKeyword(url, rules)

\* C9 as claimed: get_file_extension is the classifier with the seven
\* extensions and the keywords pdf > ppt > docx > xls > mp4 > doc.
C9_SevenExtensionClassifier ==
    (fn_out.done /\ fn_in.kind = "url") =>
        fn_out.ext = Classifier(fn_in.url, KnownExtensions,
                        <<<<KwPdf, DotPdf>>, <<KwPpt, DotPptx>>,
                          <<<<"d","o","c","x">>, <<".","d","o","c","x">>>>,
                          <<<<"x","l","s">>, <<".","x","l","s">>>>,
                          <<<<"m","p","4">>, <<".","m","p","4">>>>,
                          <<<<"d","o","c">>, <<".","d","o","c">>>>>>)

\* C9 as amended: get_file_extension is the classifier with the extensions
\* .pdf, .ppt, .pptx and the keywords pdf (giving .pdf) > ppt (giving .pptx).
C9_ThreeExtensionClassifier ==
    (fn_out.done /\ fn_in.kind = "url") =>
        fn_out.ext = Classifier(fn_in.url, {DotPdf, DotPpt, DotPptx},
                                <<<<KwPdf, DotPdf>>, <<KwPpt, DotPptx>>>>)

\* a URL without a known suffix that is classified .pptx by its keyword
C9_Witness ==
    /\ fn_out.done /\ fn_in.kind = "url"
    /\ SuffixMatches(fn_in.url, {DotPdf, DotPpt, DotPptx}) = {}
    /\ Contains(Lower(fn_in.url), KwPpt)
    /\ fn_out.ext = DotPptx

\* the k-th path of the sequence name.ext, name_1.ext, name_2.ext, ...
NthPath(filepath, k) ==
    IF k = 0 THEN filepath
    ELSE splitext(filepath)[1] \o <<"_">> \o IntToStr(k) \o splitext(filepath)[2]

\* C10: every write of download_file lands on the lowest-numbered path of
\* name.ext, name_1.ext, name_2.ext, ... at which nothing existed, and the
\* file there holds what was served for the URL.
C10_LowestFreeSuffix ==
    [][(IsDownload(last') /\ last'.wrote # <<>>)
        => /\ \E k \in 0..Cardinality(DOMAIN files \cup dirs) :
                 /\ last'.wrote = NthPath(last'.arg, k)
                 /\ ~path_exists(files, dirs, NthPath(last'.arg, k))
                 /\ \A j \in 0..(k - 1) : path_exists(files, dirs, NthPath(last'.arg, j))
           /\ last'.wrote \in DOMAIN files'
           /\ files'[last'.wrote].src = last'.url]_vars

\* two different URLs written completely under the same destination path:
\* the first at name.ext, the second, just now, at name_1.ext
C10_Witness ==
    /\ IsDownload(last) /\ last.wrote = NthPath(last.arg, 1)
    /\ last.arg \in DOMAIN files
    /\ files[last.arg].complete /\ files[last.wrote].complete
    /\ files[last.arg].src \in CallUrls \ {last.url}
    /\ files[last.wrote].src = last.url

====
